---- MODULE Spec2Model ----
(***************************************************************************)
(* picTaging: the tag-indexed batch export pipeline of HomeScreen          *)
(* (src/app/index.tsx).  One export invocation is an async function: every *)
(* await is a suspension point, the synchronous code between two awaits    *)
(* runs atomically.  An action below is "the awaited call settles, then    *)
(* the code runs to the next await".  The second part is the tag editor,   *)
(* TagModal (src/unnamed/part_000, part_001), with the HomeScreen handlers  *)
(* that open it and store its result.                                       *)
(***************************************************************************)
EXTENDS Integers, Sequences, FiniteSets, TLC

VARIABLES
    images,     \* HomeScreen state `images`: the in-memory image collection
    ex,         \* per invocation of exportImages: its locals and position
    tempFiles,  \* FileSystem.cacheDirectory: the paths that exist in it
    library,    \* MediaLibrary: the assets created so far
    album,      \* MediaLibrary: the "picTaging" album (exists, assets)
    now,        \* Date.now()
    faults,     \* number of I/O calls that have failed so far
    calls,      \* trace of the calls to the device collaborators (issue, result)
    selectedImage,      \* HomeScreen state: the image handed to TagModal
    selectedIsListed,   \* selectedImage is the very object that `images` holds
    isTagModalVisible,  \* HomeScreen state
    selectedTags,       \* TagModal state: the selection being edited
    tagGroups,          \* TagModal state: the tag catalog in memory
    store,              \* AsyncStorage: the documents "images" and "tagGroups"
    pending,            \* AsyncStorage calls issued and not yet settled, oldest first
    selectedGroupId,    \* catalog handlers' state: the group addTag adds to
    searchText,         \* TagModal state: the text of the search box
    shots,              \* takePhoto invocations waiting for the camera: their `images`
    reported            \* the error toasts shown so far

exportVars == <<ex, tempFiles, library, album, calls>>

editorVars == <<selectedImage, selectedIsListed, isTagModalVisible, selectedTags,
                tagGroups, store, pending>>

homeVars == <<selectedGroupId, searchText, shots, reported>>

vars == <<images, ex, tempFiles, library, album, now, faults, calls,
          selectedImage, selectedIsListed, isTagModalVisible, selectedTags,
          tagGroups, store, pending, selectedGroupId, searchText, shots, reported>>

----------------------------------------------------------------------------
(* Program constants *)

MAX_IMAGES == 80
BATCH_SIZE == 10

(* Bounds of the model *)

MaxImages == 11     \* longest image collection exported
MaxVaried == 3      \* longest collection whose images' tags vary freely
MaxFaults == 1      \* I/O failures per behaviour
MaxClock  == 1      \* Date.now() ranges over 0..MaxClock
MaxWrites == 2       \* writes of the image collection in flight at once
MaxShots == 2        \* camera sessions open at once
MaxPhotoClock == 2   \* latest instant at which a photo is taken
MaxPending == 1     \* AsyncStorage calls in flight at a time

----------------------------------------------------------------------------
(* Data model *)

NoGroup == "none"

Tag(id, name, groupId, isTimeTag) ==
    [id |-> id, name |-> name, groupId |-> groupId, isTimeTag |-> isTimeTag]

ImageItem(id, uri, tags) == [id |-> id, uri |-> uri, tags |-> tags]

tagMom == Tag("t1", "Mom", "g1", FALSE)
tagOne == Tag("t2", "1", "g1", FALSE)

\* the tag lists of the exported images: none, one tag, and two tags whose
\* joined name is the first suffixed name of the one-tag list
TagLists == { <<>>, <<tagMom>>, <<tagMom, tagOne>> }

MkImages(tl) ==
    [i \in 1..Len(tl) |->
        ImageItem("img" \o ToString(i), "file" \o ToString(i), tl[i])]

VariedInputs == UNION { [1..n -> TagLists] : n \in 0..MaxVaried }

\* collections of one full batch and more, every image tagged alike
UniformInputs == { [i \in 1..n |-> <<tagMom>>] : n \in BATCH_SIZE..MaxImages }

ImageInputs == { MkImages(s) : s \in VariedInputs \cup UniformInputs }

Inv == {"e1", "e2"}

\* selectedImage = null: `selectedImage?.id || ""` is "" and it has no tags
NoImage == ImageItem("", "", <<>>)

\* a tag as the catalog keeps it: no groupId, no isTimeTag
CatalogTag(id, name) == [id |-> id, name |-> name]

TagGroup(id, name, tags) == [id |-> id, name |-> name, tags |-> tags]

\* the catalog in the store when the screen mounts: two groups, and one tag
\* name that occurs in both
StoredCatalog ==
    << TagGroup("g1", "Family", << CatalogTag("t1", "Mom"), CatalogTag("t2", "Dad") >>),
       TagGroup("g2", "Sender", << CatalogTag("t3", "Mom") >>) >>

\* JSON.stringify / JSON.parse of a document of plain objects, arrays, strings
\* and booleans: the document is kept as the value it parses back to
JSONstringify(v) == [json |-> v]
JSONparse(d) == d.json

Min(a, b) == IF a < b THEN a ELSE b

----------------------------------------------------------------------------
(* generateUniqueFileName *)

RECURSIVE JoinNames(_)
JoinNames(tags) ==
    IF Len(tags) = 0 THEN ""
    ELSE IF Len(tags) = 1 THEN tags[1].name
    ELSE tags[1].name \o "_" \o JoinNames(Tail(tags))

Suffixed(base, counter) == base \o "_" \o ToString(counter)

\* the while loop: fileName is the candidate, counter the next suffix
RECURSIVE SuffixSearch(_, _, _, _)
SuffixSearch(baseFileName, fileName, counter, usedNames) ==
    IF fileName \in usedNames
    THEN SuffixSearch(baseFileName, Suffixed(baseFileName, counter),
                      counter + 1, usedNames)
    ELSE fileName

\* the suffix counter initialised to 0 instead of 1
generateUniqueFileNameFromZero(tags, usedNames, t) ==
    IF Len(tags) = 0
    THEN [fileName |-> "image_" \o ToString(t), usedNames |-> usedNames]
    ELSE LET baseFileName == JoinNames(tags)
             fileName == SuffixSearch(baseFileName, baseFileName, 0, usedNames)
         IN  [fileName |-> fileName, usedNames |-> usedNames \cup {fileName}]

\* returns the name and the used-name set the call leaves behind
generateUniqueFileName(tags, usedNames, t) ==
    IF Len(tags) = 0
    THEN [fileName |-> "image_" \o ToString(t), usedNames |-> usedNames]
    ELSE LET baseFileName == JoinNames(tags)
             fileName == SuffixSearch(baseFileName, baseFileName, 1, usedNames)
         IN  [fileName |-> fileName, usedNames |-> usedNames \cup {fileName}]

----------------------------------------------------------------------------
(* exportImages: locals and synchronous segments *)

cacheDirectory == "cache/"

TempPath(fileName) == cacheDirectory \o fileName \o ".jpg"

AlbumInitPath == TempPath("album_init")

Asset(e, img, path) == [inv |-> e, img |-> img, path |-> path]

NoAsset == Asset("", "", "")

IdleExport ==
    [pc |-> "idle", images |-> <<>>, usedNames |-> {}, names |-> <<>>,
     batchIndex |-> 0, batchImages |-> <<>>, pos |-> 0, batchAssets |-> <<>>,
     processedCount |-> 0, fileName |-> "", asset |-> NoAsset,
     toast |-> "none", exportedCount |-> 0, totalCount |-> 0]

\* Math.floor in place of Math.ceil
totalBatchesFloor(x) == Len(x.images) \div BATCH_SIZE

totalBatches(x) == (Len(x.images) + BATCH_SIZE - 1) \div BATCH_SIZE

\* the batch cut from the list on screen when the batch starts
BatchSliceLive(imgs, batchIndex) ==
    LET startIndex == batchIndex * BATCH_SIZE
        endIndex == Min(startIndex + BATCH_SIZE, Len(images))
    IN  SubSeq(images, startIndex + 1, endIndex)

BatchSlice(imgs, batchIndex) ==
    LET startIndex == batchIndex * BATCH_SIZE
        endIndex == Min(startIndex + BATCH_SIZE, Len(imgs))
    IN  SubSeq(imgs, startIndex + 1, endIndex)

Finish(x, toast) == [x EXCEPT !.pc = "done", !.toast = toast]

\* the success toast after the last batch
Success(x) ==
    [x EXCEPT !.pc = "done", !.toast = "success",
              !.exportedCount = x.processedCount,
              !.totalCount = Len(x.images)]

\* top of the inner loop for the image at position pos of the batch:
\* name it and issue copyAsync
StageImage(x, t) ==
    LET img == x.batchImages[x.pos]
        g == generateUniqueFileName(img.tags, x.usedNames, t)
    IN  [x EXCEPT !.pc = "copy", !.fileName = g.fileName,
                  !.usedNames = g.usedNames,
                  !.names = Append(x.names, g.fileName)]

\* the batch loop's header for batch number batchIndex
EnterBatch(x, batchIndex, t) ==
    IF batchIndex < totalBatches(x)
    THEN StageImage([x EXCEPT !.batchIndex = batchIndex,
                              !.batchImages = BatchSlice(x.images, batchIndex),
                              !.pos = 1, !.batchAssets = <<>>], t)
    ELSE Success([x EXCEPT !.batchIndex = batchIndex])

\* the attach step left out: the next batch starts at once
NextImageNoAttach(x, t) ==
    IF x.pos < Len(x.batchImages)
    THEN StageImage([x EXCEPT !.pos = x.pos + 1], t)
    ELSE EnterBatch(x, x.batchIndex + 1, t)

\* after the handling of one image ended (normally or in the catch):
\* the next image of the batch, or the batch's attach step, or the next batch
NextImage(x, t) ==
    IF x.pos < Len(x.batchImages)
    THEN StageImage([x EXCEPT !.pos = x.pos + 1], t)
    ELSE IF Len(x.batchAssets) > 0
    THEN [x EXCEPT !.pc = "attach"]
    ELSE EnterBatch(x, x.batchIndex + 1, t)

CurrentImage(x) == x.batchImages[x.pos]

----------------------------------------------------------------------------
(* The device collaborators *)

\* one entry of the trace of calls to the device collaborators: ev is "call"
\* when the call is issued and its result when it settles
Event(e, ev, op, img, path, assets) ==
    [inv |-> e, ev |-> ev, op |-> op, img |-> img, path |-> path,
     assets |-> assets]

\* the call an invocation is awaiting, by its position
InFlight(e, x) ==
    CASE x.pc = "perm" -> Event(e, "call", "requestPermissions", "", "", <<>>)
      [] x.pc = "getAlbum" -> Event(e, "call", "getAlbum", "", "", <<>>)
      [] x.pc = "initCopy" ->
            Event(e, "call", "copy", x.images[1].id, AlbumInitPath, <<>>)
      [] x.pc = "initAsset" ->
            Event(e, "call", "createAsset", x.images[1].id, AlbumInitPath, <<>>)
      [] x.pc = "initAlbum" ->
            Event(e, "call", "createAlbum", "", "", <<x.asset>>)
      [] x.pc = "initDelete" ->
            Event(e, "call", "delete", x.images[1].id, AlbumInitPath, <<>>)
      [] x.pc = "copy" ->
            Event(e, "call", "copy", CurrentImage(x).id, TempPath(x.fileName), <<>>)
      [] x.pc = "create" ->
            Event(e, "call", "createAsset", CurrentImage(x).id,
                  TempPath(x.fileName), <<>>)
      [] x.pc = "delete" ->
            Event(e, "call", "delete", CurrentImage(x).id, TempPath(x.fileName), <<>>)
      [] x.pc = "attach" -> Event(e, "call", "addAssets", "", "", x.batchAssets)

Awaiting(x) == x.pc \notin {"idle", "done"}

\* the results of an I/O call that can fail
Outcomes == IF faults < MaxFaults THEN {"ok", "fail"} ELSE {"ok"}

\* what Date.now() may return from now on
Times == {now} \cup now..MaxClock

\* The call invocation e awaits settles with result res, and the invocation
\* runs Segment[t], its synchronous code up to the next await (or its end),
\* t being what Date.now() returns in it.  Time that passes unobserved is not
\* recorded: the clock moves only when the segment reads it.
Resume(e, res, Segment) ==
    \E t \in Times, y0 \in {Segment[now]} :
        LET x == ex[e]
            y == IF t = now THEN y0 ELSE Segment[t]
        IN  /\ t = now \/ y # y0
            /\ now' = t
            /\ ex' = [ex EXCEPT ![e] = y]
            /\ faults' = IF res = "fail" THEN faults + 1 ELSE faults
            /\ calls' = calls
                     \o (IF Awaiting(x)
                         THEN << [InFlight(e, x) EXCEPT !.ev = res] >> ELSE << >>)
                     \o (IF Awaiting(y) THEN << InFlight(e, y) >> ELSE << >>)
            /\ UNCHANGED editorVars
            /\ UNCHANGED homeVars

----------------------------------------------------------------------------
Init ==
    /\ images \in ImageInputs
    /\ ex = [e \in Inv |-> IdleExport]
    /\ tempFiles = {}
    /\ library = {}
    /\ album \in { [exists |-> b, assets |-> {}] : b \in BOOLEAN }
    /\ now = 0
    /\ faults = 0
    /\ calls = <<>>
    /\ selectedImage = NoImage
    /\ selectedIsListed = FALSE
    /\ isTagModalVisible = FALSE
    /\ selectedTags = <<>>
    /\ tagGroups = StoredCatalog
    /\ store = [images |-> JSONstringify(images), tagGroups |-> JSONstringify(StoredCatalog)]
    /\ pending = <<>>
    /\ selectedGroupId = NoGroup
    /\ searchText = ""
    /\ shots = <<>>
    /\ reported = {}

\* the check for an empty collection left out
StartExportNoEmptyCheck(e) ==
    /\ ex[e].pc = "idle"
    /\ Resume(e, "none", [t \in Times |-> [ex[e] EXCEPT !.images = images, !.pc = "perm"]])
    /\ UNCHANGED <<images, tempFiles, library, album>>

\* the export button: exportImages up to its first await
StartExport(e) ==
    /\ ex[e].pc = "idle"
    /\ Resume(e, "none", [t \in Times |->
           LET x == [ex[e] EXCEPT !.images = images]
           IN  IF Len(images) = 0 THEN Finish(x, "empty")
               ELSE [x EXCEPT !.pc = "perm"]])
    /\ UNCHANGED <<images, tempFiles, library, album>>

\* the result of the permission request ignored
PermissionSettlesIgnored(e) ==
    /\ ex[e].pc = "perm"
    /\ \E res \in {"granted", "denied"} :
         Resume(e, res, [t \in Times |->
             [ex[e] EXCEPT !.pc = "getAlbum", !.processedCount = 0,
                           !.usedNames = {}]])
    /\ UNCHANGED <<images, tempFiles, library, album>>

\* MediaLibrary.requestPermissionsAsync settles
PermissionSettles(e) ==
    /\ ex[e].pc = "perm"
    /\ \E res \in {"granted", "denied"} :
         Resume(e, res, [t \in Times |->
             IF res = "granted"
             THEN [ex[e] EXCEPT !.pc = "getAlbum", !.processedCount = 0,
                                !.usedNames = {}]
             ELSE Finish(ex[e], "permissionDenied")])
    /\ UNCHANGED <<images, tempFiles, library, album>>

\* MediaLibrary.getAlbumAsync("picTaging") settles
GetAlbumSettles(e) ==
    /\ ex[e].pc = "getAlbum"
    /\ \E res \in Outcomes :
         Resume(e, res, [t \in Times |->
             IF res = "fail" THEN Finish(ex[e], "exportFailed")
             ELSE IF album.exists THEN EnterBatch(ex[e], 0, t)
             ELSE [ex[e] EXCEPT !.pc = "initCopy"]])
    /\ UNCHANGED <<images, tempFiles, library, album>>

\* album creation: copyAsync(images[0].uri -> album_init.jpg) settles
InitCopySettles(e) ==
    /\ ex[e].pc = "initCopy"
    /\ \E res \in Outcomes :
         /\ tempFiles' = IF res = "ok" THEN tempFiles \cup {AlbumInitPath}
                         ELSE tempFiles
         /\ Resume(e, res, [t \in Times |->
                IF res = "ok" THEN [ex[e] EXCEPT !.pc = "initAsset"]
                ELSE Finish(ex[e], "albumError")])
    /\ UNCHANGED <<images, library, album>>

\* album creation: createAssetAsync(album_init.jpg) settles
InitAssetSettles(e) ==
    /\ ex[e].pc = "initAsset"
    /\ \E res \in Outcomes :
         LET a == Asset(e, ex[e].images[1].id, AlbumInitPath)
         IN  /\ library' = IF res = "ok" THEN library \cup {a} ELSE library
             /\ Resume(e, res, [t \in Times |->
                    IF res = "ok"
                    THEN [ex[e] EXCEPT !.pc = "initAlbum", !.asset = a]
                    ELSE Finish(ex[e], "albumError")])
    /\ UNCHANGED <<images, tempFiles, album>>

\* album creation: createAlbumAsync("picTaging", initialAsset) settles
InitAlbumSettles(e) ==
    /\ ex[e].pc = "initAlbum"
    /\ \E res \in Outcomes :
         /\ album' = IF res = "ok"
                     THEN [exists |-> TRUE,
                           assets |-> album.assets \cup {ex[e].asset}]
                     ELSE album
         /\ Resume(e, res, [t \in Times |->
                IF res = "ok" THEN [ex[e] EXCEPT !.pc = "initDelete"]
                ELSE Finish(ex[e], "albumError")])
    /\ UNCHANGED <<images, tempFiles, library>>

\* album creation: deleteAsync(album_init.jpg) settles, then the first batch
InitDeleteSettles(e) ==
    /\ ex[e].pc = "initDelete"
    /\ \E res \in Outcomes :
         /\ tempFiles' = IF res = "ok" THEN tempFiles \ {AlbumInitPath}
                         ELSE tempFiles
         /\ Resume(e, res, [t \in Times |->
                IF res = "ok" THEN EnterBatch(ex[e], 0, t)
                ELSE Finish(ex[e], "albumError")])
    /\ UNCHANGED <<images, library, album>>

\* inner loop: copyAsync(img.uri -> tempFile) settles
CopySettles(e) ==
    /\ ex[e].pc = "copy"
    /\ \E res \in Outcomes :
         LET x == ex[e]
             tempFile == TempPath(x.fileName)
         IN  /\ tempFiles' = IF res = "ok" THEN tempFiles \cup {tempFile}
                             ELSE tempFiles
             /\ Resume(e, res, [t \in Times |->
                    IF res = "ok" THEN [x EXCEPT !.pc = "create"]
                    ELSE NextImage(x, t)])
    /\ UNCHANGED <<images, library, album>>

\* no try/catch around the handling of one image: a rejected createAssetAsync
\* reaches the outer catch
CreateAssetSettlesAbort(e) ==
    /\ ex[e].pc = "create"
    /\ \E res \in Outcomes :
         LET x == ex[e]
             a == Asset(e, CurrentImage(x).id, TempPath(x.fileName))
         IN  /\ library' = IF res = "ok" THEN library \cup {a} ELSE library
             /\ Resume(e, res, [t \in Times |->
                    IF res = "ok"
                    THEN [x EXCEPT !.pc = "delete",
                                   !.batchAssets = Append(x.batchAssets, a)]
                    ELSE Finish(x, "exportFailed")])
    /\ UNCHANGED <<images, tempFiles, album>>

\* inner loop: createAssetAsync(tempFile) settles; it resolves to an Asset, so
\* the test `if (asset)` passes whenever it resolves
CreateAssetSettles(e) ==
    /\ ex[e].pc = "create"
    /\ \E res \in Outcomes :
         LET x == ex[e]
             a == Asset(e, CurrentImage(x).id, TempPath(x.fileName))
         IN  /\ library' = IF res = "ok" THEN library \cup {a} ELSE library
             /\ Resume(e, res, [t \in Times |->
                    IF res = "ok"
                    THEN [x EXCEPT !.pc = "delete",
                                   !.batchAssets = Append(x.batchAssets, a)]
                    ELSE NextImage(x, t)])
    /\ UNCHANGED <<images, tempFiles, album>>

\* inner loop: deleteAsync(tempFile) settles
DeleteSettles(e) ==
    /\ ex[e].pc = "delete"
    /\ \E res \in Outcomes :
         LET x == ex[e]
             tempFile == TempPath(x.fileName)
         IN  /\ tempFiles' = IF res = "ok" THEN tempFiles \ {tempFile}
                             ELSE tempFiles
             /\ Resume(e, res, [t \in Times |->
                    IF res = "ok"
                    THEN NextImage([x EXCEPT !.processedCount =
                                                x.processedCount + 1], t)
                    ELSE NextImage(x, t)])
    /\ UNCHANGED <<images, library, album>>

\* no try/catch around the attach call: a rejected addAssetsToAlbumAsync
\* reaches the outer catch
AttachSettlesAbort(e) ==
    /\ ex[e].pc = "attach"
    /\ \E res \in Outcomes :
         LET x == ex[e]
             batch == { x.batchAssets[i] : i \in 1..Len(x.batchAssets) }
         IN  /\ album' = IF res = "ok"
                         THEN [album EXCEPT !.assets = album.assets \cup batch]
                         ELSE album
             /\ Resume(e, res, [t \in Times |->
                    IF res = "ok" THEN EnterBatch(x, x.batchIndex + 1, t)
                    ELSE Finish(x, "exportFailed")])
    /\ UNCHANGED <<images, tempFiles, library>>

\* addAssetsToAlbumAsync(batchAssets, picTagingAlbum) settles
AttachSettles(e) ==
    /\ ex[e].pc = "attach"
    /\ \E res \in Outcomes :
         LET x == ex[e]
             batch == { x.batchAssets[i] : i \in 1..Len(x.batchAssets) }
         IN  /\ album' = IF res = "ok"
                         THEN [album EXCEPT !.assets = album.assets \cup batch]
                         ELSE album
             /\ Resume(e, res, [t \in Times |-> EnterBatch(x, x.batchIndex + 1, t)])
    /\ UNCHANGED <<images, tempFiles, library>>

Export(e) ==
    \/ StartExport(e)
    \/ PermissionSettles(e)
    \/ GetAlbumSettles(e)
    \/ InitCopySettles(e)
    \/ InitAssetSettles(e)
    \/ InitAlbumSettles(e)
    \/ InitDeleteSettles(e)
    \/ CopySettles(e)
    \/ CreateAssetSettles(e)
    \/ DeleteSettles(e)
    \/ AttachSettles(e)

Next == Export("e1")

Spec == Init /\ [][Next]_vars

\* the collections of a full batch and more
LongInit == Init /\ images \in { MkImages(s) : s \in UniformInputs }

\* every awaited I/O call eventually settles
FairSpec == LongInit /\ [][Next]_vars /\ WF_vars(Next)

----------------------------------------------------------------------------
(* Export pipeline: naming *)

Range(s) == { s[i] : i \in 1..Len(s) }

\* C1: within one export invocation every name the naming function returned
\* is in the used-name set, and no two images received the same name.
C1_NamesRecordedAndDistinct ==
    \A e \in Inv :
        LET names == ex[e].names
        IN  /\ \A i \in 1..Len(names) : names[i] \in ex[e].usedNames
            /\ \A i, j \in 1..Len(names) : i # j => names[i] # names[j]

\* B if B is unused, else B_i for the smallest i >= 1 with B_i unused
SmallestUnused(B, U) ==
    IF B \notin U THEN B
    ELSE Suffixed(B, CHOOSE i \in 1..(Cardinality(U) + 1) :
                        /\ Suffixed(B, i) \notin U
                        /\ \A j \in 1..(i - 1) : Suffixed(B, j) \in U)

\* the images named so far all have tags, which join to the same base name
SameBaseSoFar(x) ==
    /\ Len(x.names) > 0
    /\ \A i \in 1..Len(x.names) :
          /\ Len(x.images[i].tags) > 0
          /\ JoinNames(x.images[i].tags) = JoinNames(x.images[1].tags)

NamesOfSameBase(x) ==
    LET B == JoinNames(x.images[1].tags)
    IN  \A i \in 1..Len(x.names) :
            x.names[i] = IF i = 1 THEN B ELSE Suffixed(B, i - 1)

\* a step in which invocation e named a tagged image
NamedTagged(e) ==
    /\ Len(ex'[e].names) = Len(ex[e].names) + 1
    /\ Len(CurrentImage(ex'[e]).tags) > 0

\* C2: k images with the same base name B get B, B_1, ..., B_(k-1) in input
\* order; in general a tagged image gets B if B is unused, else B_i for the
\* smallest i >= 1 such that B_i is not yet in the used-name set.
C2_SmallestUnusedSuffix ==
    /\ [](\A e \in Inv : SameBaseSoFar(ex[e]) => NamesOfSameBase(ex[e]))
    /\ [][\A e \in Inv :
            NamedTagged(e) =>
                ex'[e].fileName =
                    SmallestUnused(JoinNames(CurrentImage(ex'[e]).tags),
                                   ex[e].usedNames)]_vars

\* more than ten images of one base name have been named
C2_Witness ==
    \E e \in Inv : SameBaseSoFar(ex[e]) /\ Len(ex[e].names) > BATCH_SIZE

----------------------------------------------------------------------------
(* Export pipeline: staging, batches and failures *)

\* the trace of invocation e
Mine(e) == SelectSeq(calls, LAMBDA c : c.inv = e)

\* the events of the staging pass (not of the album creation)
InLoop(c) == c.op \in {"copy", "createAsset", "delete"} /\ c.path # AlbumInitPath

IsLoopCopyCall(c) == InLoop(c) /\ c.op = "copy" /\ c.ev = "call"

IsCreated(c) == InLoop(c) /\ c.op = "createAsset" /\ c.ev = "ok"

IsStagingFailure(c) ==
    InLoop(c) /\ c.op \in {"copy", "createAsset"} /\ c.ev = "fail"

IsAttachCall(c) == c.op = "addAssets" /\ c.ev = "call"

IsAttachSettled(c) == c.op = "addAssets" /\ c.ev \in {"ok", "fail"}

IndexOfImage(x, id) == CHOOSE i \in 1..Len(x.images) : x.images[i].id = id

\* the number of the batch (from 0) that holds the i-th image (from 1)
BatchOf(i) == (i - 1) \div BATCH_SIZE

BatchOfImage(x, id) == BatchOf(IndexOfImage(x, id))

\* the album is resolved and the batch loop has been entered
LoopEntered(x) == Len(x.names) > 0

\* the images for which the staging pass issued copyAsync, in call order
StagedImages(e) ==
    LET cs == SelectSeq(Mine(e), IsLoopCopyCall)
    IN  [k \in 1..Len(cs) |-> cs[k].img]

ImageIds(x) == [i \in 1..Len(x.images) |-> x.images[i].id]

\* C3: images are staged one at a time in input order, a batch is a
\* contiguous slice of at most 10 images, and no image of a later batch starts
\* staging before the attach step of every earlier batch has settled.  (Stated
\* of the trace's last event: every prefix of the trace is the trace of an
\* earlier state.)
C3_SequentialBatches ==
    \A e \in Inv :
        LET x == ex[e]
            mine == Mine(e)
            n == Len(mine)
        IN  n > 0 =>
            LET c == mine[n]
                k == Cardinality({ p \in 1..n : IsLoopCopyCall(mine[p]) })
            IN  /\ (c.ev = "call" /\ n > 1) => mine[n - 1].ev # "call"
                /\ IsLoopCopyCall(c) =>
                     /\ k <= Len(x.images)
                     /\ c.img = x.images[k].id
                     /\ \A p \in 1..n :
                          (IsCreated(mine[p])
                             /\ BatchOfImage(x, mine[p].img) < BatchOf(k))
                          => \E q \in (p + 1)..n :
                               /\ IsAttachSettled(mine[q])
                               /\ Asset(e, mine[p].img, mine[p].path)
                                     \in Range(mine[q].assets)
                /\ IsAttachCall(c) =>
                     /\ Len(c.assets) <= BATCH_SIZE
                     /\ \A a \in Range(c.assets) :
                          BatchOfImage(x, a.img) = BatchOf(k)

\* the first image of the second batch is being staged after the first
\* batch's attach call settled
C3_Witness ==
    \E e \in Inv :
        /\ ex[e].pc = "copy"
        /\ ex[e].batchIndex = 1
        /\ \E p \in 1..Len(calls) : IsAttachSettled(calls[p]) /\ calls[p].inv = e

\* C4: once the batch loop is entered, a staging or asset-creation failure
\* aborts neither the batch nor the pipeline: when the invocation ends every
\* image of the input has been attempted exactly once, in order, and an image
\* that failed is not in its batch's asset list.
C4_FailureIsolated ==
    \A e \in Inv :
        LET x == ex[e]
            mine == Mine(e)
        IN  LoopEntered(x) =>
              /\ x.pc = "done" =>
                   /\ x.toast = "success"
                   /\ StagedImages(e) = ImageIds(x)
              /\ \A p \in 1..Len(mine) :
                   IsStagingFailure(mine[p]) =>
                     /\ \A a \in Range(x.batchAssets) : a.img # mine[p].img
                     /\ \A q \in 1..Len(mine) :
                          IsAttachCall(mine[q]) =>
                            \A a \in Range(mine[q].assets) : a.img # mine[p].img

\* an invocation ended after an image that is not the last one failed
C4_Witness ==
    \E e \in Inv :
        /\ ex[e].pc = "done"
        /\ \E p \in 1..Len(calls) :
             /\ calls[p].inv = e
             /\ IsStagingFailure(calls[p])
             /\ IndexOfImage(ex[e], calls[p].img) < Len(ex[e].images)

\* the assets the staging pass created, i.e. put on a batch asset list
CreatedAssets(e) ==
    LET cs == SelectSeq(Mine(e), IsCreated)
    IN  [k \in 1..Len(cs) |-> Asset(e, cs[k].img, cs[k].path)]

\* C5: when an export completes, exportedCount is the number of images whose
\* staging and asset creation both succeeded (the assets put on batch asset
\* lists), totalCount is the length of the input, and
\* 0 <= exportedCount <= totalCount.
C5_CountsCreatedAssets ==
    \A e \in Inv :
        LET x == ex[e]
        IN  (x.pc = "done" /\ x.toast = "success") =>
              /\ x.exportedCount = Len(CreatedAssets(e))
              /\ x.totalCount = Len(x.images)
              /\ 0 <= x.exportedCount
              /\ x.exportedCount <= x.totalCount

\* image i of the input was tried for staging and failed
TriedAndFailed(e, i) ==
    \E p \in 1..Len(calls) :
        /\ calls[p].inv = e
        /\ calls[p].op \in {"copy", "createAsset"}
        /\ calls[p].ev = "fail"
        /\ calls[p].img = ex[e].images[i].id

\* C6: export aborts with the album-creation error only if no image of the
\* input can be staged.
C6_AlbumErrorOnlyIfNoneStaged ==
    \A e \in Inv :
        ex[e].toast = "albumError" =>
            \A i \in 1..Len(ex[e].images) : TriedAndFailed(e, i)

\* the temporary file invocation e is working on
WorkingFile(e) ==
    CASE ex[e].pc \in {"initAsset", "initAlbum", "initDelete"} -> {AlbumInitPath}
      [] ex[e].pc \in {"create", "delete"} -> {TempPath(ex[e].fileName)}
      [] OTHER -> {}

\* the temporary files invocation e staged that still exist, that it is not
\* working on, and whose deletion did not itself fail
Leftover(e) ==
    { f \in tempFiles :
        /\ \E p \in 1..Len(calls) :
             calls[p].inv = e /\ calls[p].op = "copy" /\ calls[p].ev = "ok"
                /\ calls[p].path = f
        /\ f \notin WorkingFile(e)
        /\ ~ \E p \in 1..Len(calls) :
               calls[p].inv = e /\ calls[p].op = "delete" /\ calls[p].ev = "fail"
                  /\ calls[p].path = f }

\* C7: every temporary staging file is released whether or not asset creation
\* (or album creation) succeeded: after the handling of each image, and when
\* the invocation has ended, no temporary file it staged remains.
C7_TempFilesReleased == \A e \in Inv : Leftover(e) = {}

\* the attach calls of invocation e that carry an asset of batch b
AttachCallsOf(e, b) ==
    { p \in 1..Len(calls) :
        /\ calls[p].inv = e
        /\ IsAttachCall(calls[p])
        /\ \E a \in Range(calls[p].assets) : BatchOfImage(ex[e], a.img) = b }

\* the assets created from the images of batch b, in creation order
CreatedInBatch(e, b) ==
    SelectSeq(CreatedAssets(e), LAMBDA a : BatchOfImage(ex[e], a.img) = b)

\* the staging pass of batch b is over
PassOver(x, b) ==
    \/ x.batchIndex > b
    \/ x.batchIndex = b /\ x.pc = "attach"

\* C8: after a batch's staging pass exactly the assets created from that batch
\* are attached in a single call (no call when the batch produced no asset),
\* and a failed attach call does not keep a later batch from being staged and
\* attached: the invocation ends in success with every batch so handled.
C8_AttachPerBatch ==
    \A e \in Inv :
        LET x == ex[e]
        IN  LoopEntered(x) =>
              /\ x.pc = "done" => x.toast = "success" /\ x.batchIndex = totalBatches(x)
              /\ \A p \in 1..Len(calls) :
                   (calls[p].inv = e /\ IsAttachCall(calls[p]))
                      => Len(calls[p].assets) > 0
              /\ \A b \in 0..(totalBatches(x) - 1) :
                   LET cb == CreatedInBatch(e, b)
                       at == AttachCallsOf(e, b)
                   IN  IF PassOver(x, b) /\ Len(cb) > 0
                       THEN /\ Cardinality(at) = 1
                            /\ \A p \in at : calls[p].assets = cb
                       ELSE at = {}

\* an attach call failed and a later batch was staged and attached
C8_Witness ==
    \E e \in Inv :
        /\ ex[e].pc = "done"
        /\ \E p, q \in 1..Len(calls) :
             /\ p < q
             /\ calls[p].inv = e /\ calls[p].op = "addAssets" /\ calls[p].ev = "fail"
             /\ calls[q].inv = e /\ calls[q].op = "addAssets" /\ calls[q].ev = "ok"

\* C9: export invoked with an empty image collection returns at once: no
\* permission request, no album lookup or creation, no staging, no asset.
C9_EmptyExportHasNoEffect ==
    \A e \in Inv :
        (ex[e].pc # "idle" /\ Len(ex[e].images) = 0) =>
            /\ ex[e].pc = "done"
            /\ ex[e].toast = "empty"
            /\ Mine(e) = << >>
            /\ tempFiles = {} /\ library = {} /\ album.assets = {}

C9_Witness == ex["e1"].pc = "done" /\ ex["e1"].toast = "empty"

\* C10: if library write permission is denied, export aborts before any side
\* effect: the permission request is the only call of the invocation.
C10_DeniedHasNoEffect ==
    \A e \in Inv :
        LET mine == Mine(e)
        IN  (\E p \in 1..Len(mine) :
                mine[p].op = "requestPermissions" /\ mine[p].ev = "denied")
            => /\ ex[e].pc = "done"
               /\ ex[e].toast = "permissionDenied"
               /\ Len(mine) = 2
               /\ \A p \in 1..Len(mine) : mine[p].op = "requestPermissions"
               /\ tempFiles = {} /\ library = {} /\ album.assets = {}

C10_Witness == ex["e1"].toast = "permissionDenied"

----------------------------------------------------------------------------
(* Export pipeline: termination *)

\* invocation e ended in success after the staging pass went through every
\* image and every batch
RanAllBatches(e) ==
    /\ ex[e].pc = "done"
    /\ ex[e].toast = "success"
    /\ Len(ex[e].names) = Len(ex[e].images)
    /\ ex[e].batchIndex * BATCH_SIZE >= Len(ex[e].images)
    /\ (ex[e].batchIndex - 1) * BATCH_SIZE < Len(ex[e].images)

\* C11: if every I/O call eventually settles, an invocation that entered the
\* batch loop (permission granted, album resolved) eventually ends having
\* processed all ceil(n/10) batches, whatever image or attach call failed.
C11_ExportTerminates == \A e \in Inv : LoopEntered(ex[e]) ~> RanAllBatches(e)

\* an invocation of two batches ended although one of its calls failed
C11_Witness ==
    \E e \in Inv :
        /\ RanAllBatches(e)
        /\ ex[e].batchIndex > 1
        /\ \E p \in 1..Len(calls) : calls[p].inv = e /\ calls[p].ev = "fail"

----------------------------------------------------------------------------
(* TagModal: the tag selection of one image (src/unnamed/part_000, and the  *)
(* catalog handlers of its variant src/unnamed/part_001) and the HomeScreen *)
(* handlers that open it and take its result.  A handler runs atomically on *)
(* the state of the latest render; an AsyncStorage call it issues settles   *)
(* in a later step.                                                         *)

\* the texts typed into the time-tag input
TimeTexts == {"", "  ", "2023", "Xmas "}

\* String.prototype.trim on the texts of the model
trim(text) ==
    CASE text = "  " -> ""
      [] text = "Xmas " -> "Xmas"
      [] text = "mo " -> "mo"
      [] OTHER -> text

\* Intl collation of the names of the model under "zh-CN": white space and
\* digits come before letters, letters in alphabetical order
CollationKey(name) ==
    CASE name = "1" -> 1
      [] name = "2023" -> 2
      [] name = "Dad" -> 3
      [] name = "Mom" -> 4
      [] name = "Xmas " -> 5
      [] OTHER -> 0

localeCompare(a, b) ==
    IF CollationKey(a) < CollationKey(b) THEN -1
    ELSE IF CollationKey(a) > CollationKey(b) THEN 1 ELSE 0

\* selectedTags.findIndex(tag => tag.isTimeTag), 0 where the code has -1
existingTimeTagIndex(tags) ==
    IF \E i \in 1..Len(tags) : tags[i].isTimeTag
    THEN CHOOSE i \in 1..Len(tags) :
            /\ tags[i].isTimeTag
            /\ \A j \in 1..(i - 1) : ~tags[j].isTimeTag
    ELSE 0

timeTagObject(text, t) == Tag("time-" \o ToString(t), text, NoGroup, TRUE)

\* the new time tag always appended
addTimeTagAppend(tags, text, t) ==
    IF trim(text) = "" THEN tags ELSE Append(tags, timeTagObject(text, t))

\* no check for a blank text
addTimeTagNoBlankCheck(tags, text, t) ==
    IF existingTimeTagIndex(tags) > 0
    THEN [tags EXCEPT ![existingTimeTagIndex(tags)] = timeTagObject(text, t)]
    ELSE Append(tags, timeTagObject(text, t))

\* the old time tag dropped and the new one appended
addTimeTagMoveToEnd(tags, text, t) ==
    IF trim(text) = "" THEN tags
    ELSE Append(SelectSeq(tags, LAMBDA x : ~x.isTimeTag), timeTagObject(text, t))

\* the value addTimeTag hands to setSelectedTags (tags itself when it returns
\* early)
addTimeTag(tags, text, t) ==
    IF trim(text) = "" THEN tags
    ELSE IF existingTimeTagIndex(tags) > 0
         THEN [tags EXCEPT ![existingTimeTagIndex(tags)] = timeTagObject(text, t)]
         ELSE Append(tags, timeTagObject(text, t))

isSelected(tags, tag) == \E i \in 1..Len(tags) : tags[i].id = tag.id

\* a tag that is selected is not taken out
toggleTagAddOnly(tags, groupId, tag) ==
    Append(tags, Tag(tag.id, tag.name, groupId, FALSE))

\* the tag appended as the catalog holds it
toggleTagNoGroup(tags, groupId, tag) ==
    IF isSelected(tags, tag)
    THEN SelectSeq(tags, LAMBDA x : x.id # tag.id)
    ELSE Append(tags, Tag(tag.id, tag.name, NoGroup, FALSE))

\* the value toggleTag hands to setSelectedTags
\* the deselection takes the time tag along
toggleTagDropsTime(tags, groupId, tag) ==
    IF isSelected(tags, tag)
    THEN SelectSeq(tags, LAMBDA x : x.id # tag.id /\ ~x.isTimeTag)
    ELSE Append(tags, Tag(tag.id, tag.name, groupId, FALSE))

toggleTag(tags, groupId, tag) ==
    IF isSelected(tags, tag)
    THEN SelectSeq(tags, LAMBDA x : x.id # tag.id)
    ELSE Append(tags, Tag(tag.id, tag.name, groupId, FALSE))

\* the comparison without its two time-tag lines
compareByName(a, b) == localeCompare(a.name, b.name)

\* the comparison function handleSave sorts with
compareTags(a, b) ==
    IF a.isTimeTag /\ ~b.isTimeTag THEN -1
    ELSE IF ~a.isTimeTag /\ b.isTimeTag THEN 1
    ELSE localeCompare(a.name, b.name)

RECURSIVE insertSorted(_, _)
insertSorted(s, x) ==
    IF s = <<>> THEN <<x>>
    ELSE IF compareTags(s[Len(s)], x) > 0
         THEN Append(insertSorted(SubSeq(s, 1, Len(s) - 1), x), s[Len(s)])
         ELSE Append(s, x)

\* Array.prototype.sort: a stable sort under the comparison function
RECURSIVE sort(_)
sort(s) ==
    IF s = <<>> THEN <<>>
    ELSE insertSorted(sort(SubSeq(s, 1, Len(s) - 1)), s[Len(s)])

\* images.map(img => img.id === imageId ? {...img, tags} : img)
\* the tags set on every image
updatedImagesAll(imageId, tags) ==
    [i \in 1..Len(images) |-> [images[i] EXCEPT !.tags = tags]]

updatedImages(imageId, tags) ==
    [i \in 1..Len(images) |->
        IF images[i].id = imageId THEN [images[i] EXCEPT !.tags = tags]
        ELSE images[i]]

\* tagGroups.filter(group => group.id !== groupId)
withoutGroup(groups, groupId) == SelectSeq(groups, LAMBDA g : g.id # groupId)

\* tagGroups.map(group => group.id === groupId ? {...group, tags: ...} : group)
withoutTag(groups, groupId, tagId) ==
    [i \in 1..Len(groups) |->
        IF groups[i].id = groupId
        THEN [groups[i] EXCEPT !.tags = SelectSeq(groups[i].tags, LAMBDA x : x.id # tagId)]
        ELSE groups[i]]

\* the selection left as it is when a group is deleted
deleteGroupKeepsSelection(tags, groupId) == tags

\* the selection deleteGroup hands to setSelectedTags
deleteGroupSelection(tags, groupId) == SelectSeq(tags, LAMBDA x : x.groupId # groupId)

\* the selection left as it is when a tag is deleted
deleteTagKeepsSelection(tags, tagId) == tags

\* the selection deleteTag hands to setSelectedTags
deleteTagSelection(tags, tagId) == SelectSeq(tags, LAMBDA x : x.id # tagId)

Call(by, op, key, doc) == [by |-> by, op |-> op, key |-> key, doc |-> doc]

\* the catalog written under the key of the image collection
saveTagGroupsToImages(groups) ==
    Call("saveTagGroups", "setItem", "images", JSONstringify(groups))

\* the call saveTagGroups issues
saveTagGroups(groups) ==
    Call("saveTagGroups", "setItem", "tagGroups", JSONstringify(groups))

\* openTagModal(images[i]) and, when TagModal gets another image object than
\* it had, the effect on [image]: loadTagGroups is issued and the selection
\* becomes the image's tags
OpenTagModal(i) ==
    /\ ~isTagModalVisible
    /\ i \in 1..Len(images)
    /\ isTagModalVisible' = TRUE
    /\ IF selectedIsListed /\ selectedImage.id = images[i].id
       THEN UNCHANGED <<selectedImage, selectedIsListed, selectedTags, pending, searchText>>
       ELSE /\ Len(pending) < MaxPending
            /\ selectedImage' = images[i]
            /\ selectedIsListed' = TRUE
            /\ selectedTags' = images[i].tags
            /\ pending' = Append(pending,
                   Call("loadTagGroups", "getItem", "tagGroups", JSONstringify(<<>>)))
            /\ searchText' = ""
    /\ UNCHANGED <<images, tagGroups, store, now, faults, selectedGroupId, shots, reported>>
    /\ UNCHANGED exportVars

\* onClose from the close button or the backdrop
CloseTagModal ==
    /\ isTagModalVisible
    /\ isTagModalVisible' = FALSE
    /\ UNCHANGED <<images, selectedImage, selectedIsListed, selectedTags, tagGroups,
                   store, pending, now, faults>>
    /\ UNCHANGED exportVars
    /\ UNCHANGED homeVars

\* a press on the k-th tag shown under the g-th group
ToggleTag(g, k) ==
    /\ isTagModalVisible
    /\ g \in 1..Len(tagGroups)
    /\ k \in 1..Len(tagGroups[g].tags)
    /\ selectedTags' = toggleTag(selectedTags, tagGroups[g].id, tagGroups[g].tags[k])
    /\ UNCHANGED <<images, selectedImage, selectedIsListed, isTagModalVisible, tagGroups,
                   store, pending, now, faults>>
    /\ UNCHANGED exportVars
    /\ UNCHANGED homeVars

\* the text is typed into the time-tag input and the add button pressed
AddTimeTag(text) ==
    /\ isTagModalVisible
    /\ \E t \in Times :
        /\ trim(text) = "" => t = now
        /\ now' = t
        /\ selectedTags' = addTimeTag(selectedTags, text, t)
    /\ UNCHANGED <<images, selectedImage, selectedIsListed, isTagModalVisible, tagGroups,
                   store, pending, faults>>
    /\ UNCHANGED exportVars
    /\ UNCHANGED homeVars

\* the close button on the time-tag badge
RemoveTimeTag ==
    /\ isTagModalVisible
    /\ existingTimeTagIndex(selectedTags) > 0
    /\ selectedTags' = SelectSeq(selectedTags, LAMBDA x : ~x.isTimeTag)
    /\ UNCHANGED <<images, selectedImage, selectedIsListed, isTagModalVisible, tagGroups,
                   store, pending, now, faults>>
    /\ UNCHANGED exportVars
    /\ UNCHANGED homeVars

\* clearAllTags, the alert confirmed
ClearAllTags ==
    /\ isTagModalVisible
    /\ selectedTags' = <<>>
    /\ UNCHANGED <<images, selectedImage, selectedIsListed, isTagModalVisible, tagGroups,
                   store, pending, now, faults>>
    /\ UNCHANGED exportVars
    /\ UNCHANGED homeVars

\* handleSave: the selection is sorted in place and handed to
\* updateImageTags, which replaces the image object and issues the write
HandleSave ==
    /\ isTagModalVisible
    /\ Len(pending) < MaxWrites
    /\ LET tags == sort(selectedTags)
       IN  /\ selectedTags' = tags
           /\ images' = updatedImages(selectedImage.id, tags)
           /\ pending' = Append(pending,
                  Call("updateImageTags", "setItem", "images",
                       JSONstringify(updatedImages(selectedImage.id, tags))))
    /\ selectedIsListed' =
           IF \E i \in 1..Len(images) : images[i].id = selectedImage.id
           THEN FALSE ELSE selectedIsListed
    /\ isTagModalVisible' = FALSE
    /\ UNCHANGED <<selectedImage, tagGroups, store, now, faults>>
    /\ UNCHANGED exportVars
    /\ UNCHANGED homeVars

\* deleteGroup of the g-th group, the alert confirmed
DeleteGroup(g) ==
    /\ isTagModalVisible
    /\ Len(pending) < MaxPending
    /\ g \in 1..Len(tagGroups)
    /\ pending' = Append(pending, saveTagGroups(withoutGroup(tagGroups, tagGroups[g].id)))
    /\ selectedTags' = deleteGroupSelection(selectedTags, tagGroups[g].id)
    /\ UNCHANGED <<images, selectedImage, selectedIsListed, isTagModalVisible, tagGroups,
                   store, now, faults>>
    /\ UNCHANGED exportVars
    /\ UNCHANGED homeVars

\* deleteTag of the k-th tag of the g-th group, the alert confirmed
DeleteTag(g, k) ==
    /\ isTagModalVisible
    /\ Len(pending) < MaxPending
    /\ g \in 1..Len(tagGroups)
    /\ k \in 1..Len(tagGroups[g].tags)
    /\ pending' = Append(pending,
           saveTagGroups(withoutTag(tagGroups, tagGroups[g].id, tagGroups[g].tags[k].id)))
    /\ selectedTags' = deleteTagSelection(selectedTags, tagGroups[g].tags[k].id)
    /\ UNCHANGED <<images, selectedImage, selectedIsListed, isTagModalVisible, tagGroups,
                   store, now, faults>>
    /\ UNCHANGED exportVars
    /\ UNCHANGED homeVars

\* the error toast of the function that issued the call, shown in its catch
\* block: loadImages, loadTagGroups and saveTagGroups have one
Notices(c) ==
    IF c.by \in {"loadImages", "loadTagGroups", "saveTagGroups"} THEN {c.by} ELSE {}

\* the call is awaited outside any try by the operation itself, whose promise
\* rejects to its caller: takePhoto and updateImageTags.  deleteImage and
\* clearAllImages have returned when the alert's button issues the call
Rejects(c) == c.by \in {"takePhoto", "updateImageTags"}

\* the oldest AsyncStorage call settles and the code after its await runs:
\* loadImages, loadTagGroups and saveTagGroups set the state in memory, and
\* only when the call succeeded
\* the catalog set from the call although it failed
setTagGroupsEager(c, res) ==
    IF c.key = "tagGroups" /\ c.op = "setItem" THEN JSONparse(c.doc)
    ELSE IF res = "ok" /\ c.key = "tagGroups" THEN JSONparse(store.tagGroups)
    ELSE tagGroups

\* setTagGroups after the awaited call: in saveTagGroups the catalog written,
\* in loadTagGroups the catalog read; skipped when the call throws
setTagGroups(c, res) ==
    IF res = "ok" /\ c.key = "tagGroups"
    THEN (IF c.op = "setItem" THEN JSONparse(c.doc) ELSE JSONparse(store.tagGroups))
    ELSE tagGroups

\* the written document joined to the stored one
setItemMerge(st, c) ==
    [st EXCEPT ![c.key] = JSONstringify(JSONparse(st[c.key]) \o JSONparse(c.doc))]

\* AsyncStorage.setItem: the document under the key is replaced as a whole
setItem(st, c) == [st EXCEPT ![c.key] = c.doc]

StorageSettles(res) ==
    /\ pending # <<>>
    /\ res \in Outcomes
    /\ pending' = Tail(pending)
    /\ faults' = IF res = "fail" THEN faults + 1 ELSE faults
    /\ LET c == Head(pending)
           loaded == res = "ok" /\ c.op = "getItem" /\ c.key = "images"
       IN  /\ store' = IF res = "ok" /\ c.op = "setItem" THEN setItem(store, c) ELSE store
           /\ tagGroups' = setTagGroups(c, res)
           /\ images' = IF loaded THEN JSONparse(store.images) ELSE images
           /\ selectedIsListed' = IF loaded THEN FALSE ELSE selectedIsListed
           /\ reported' = IF res = "fail" THEN reported \cup Notices(c) ELSE reported
    /\ UNCHANGED <<selectedImage, isTagModalVisible, selectedTags, now,
                   selectedGroupId, searchText, shots>>
    /\ UNCHANGED exportVars

\* one image without tags, on a device that has the album
EditorInit ==
    /\ Init
    /\ images = MkImages(<< <<>> >>)
    /\ album.exists

\* no AsyncStorage call is in flight
Settled == pending = <<>>

\* the editor on a store that answers before the next press and does not fail
EditorNext ==
    \/ \E i \in 1..Len(images) : Settled /\ OpenTagModal(i)
    \/ Settled /\ CloseTagModal
    \/ \E g \in 1..Len(tagGroups) : \E k \in 1..Len(tagGroups[g].tags) :
           Settled /\ ToggleTag(g, k)
    \/ \E text \in TimeTexts : Settled /\ AddTimeTag(text)
    \/ Settled /\ RemoveTimeTag
    \/ Settled /\ ClearAllTags
    \/ Settled /\ HandleSave
    \/ \E g \in 1..Len(tagGroups) : Settled /\ DeleteGroup(g)
    \/ \E g \in 1..Len(tagGroups) : \E k \in 1..Len(tagGroups[g].tags) :
           Settled /\ DeleteTag(g, k)
    \/ StorageSettles("ok")

EditorSpec == EditorInit /\ [][EditorNext]_vars

\* the catalog handlers on a store that answers late and may fail
CatalogNext ==
    \/ \E i \in 1..Len(images) : OpenTagModal(i)
    \/ CloseTagModal
    \/ \E g \in 1..Len(tagGroups) : \E k \in 1..Len(tagGroups[g].tags) : ToggleTag(g, k)
    \/ \E text \in TimeTexts : AddTimeTag(text)
    \/ \E g \in 1..Len(tagGroups) : DeleteGroup(g)
    \/ \E g \in 1..Len(tagGroups) : \E k \in 1..Len(tagGroups[g].tags) : DeleteTag(g, k)
    \/ \E res \in {"ok", "fail"} : StorageSettles(res)

CatalogSpec == EditorInit /\ [][CatalogNext]_vars

----------------------------------------------------------------------------
(* The catalog handlers that add: addGroup, addTag and the choice of the    *)
(* group to add to (src/unnamed/part_001:85-127, 325; the same code is in   *)
(* TagManagementScreen, src/unnamed/part_002:70-111, 220)                   *)

\* the names typed into the new-group and new-tag inputs
NameTexts == {"", "  ", "Pets"}

\* the instants at which a handler that follows typing can run: later than
\* the last instant read from the clock
Later == { t \in Times : t > now }

\* [...tagGroups, newGroup]
withGroup(groups, name, t) == Append(groups, TagGroup(ToString(t), name, <<>>))

\* tagGroups.map(group => group.id === selectedGroupId ? {...group, tags: [...]} : group)
withTag(groups, groupId, name, t) ==
    [i \in 1..Len(groups) |->
        IF groups[i].id = groupId
        THEN [groups[i] EXCEPT !.tags = Append(groups[i].tags, CatalogTag(ToString(t), name))]
        ELSE groups[i]]

\* a press on the header of the g-th group
SelectGroup(g) ==
    /\ isTagModalVisible
    /\ g \in 1..Len(tagGroups)
    /\ selectedGroupId' = IF selectedGroupId = tagGroups[g].id THEN NoGroup
                          ELSE tagGroups[g].id
    /\ UNCHANGED <<images, now, faults, searchText, shots, reported>>
    /\ UNCHANGED editorVars
    /\ UNCHANGED exportVars

\* the name is typed and the add-group button pressed
AddGroup(name) ==
    /\ isTagModalVisible
    /\ trim(name) # ""
    /\ Len(pending) < MaxPending
    /\ \E t \in Later :
        /\ now' = t
        /\ pending' = Append(pending, saveTagGroups(withGroup(tagGroups, name, t)))
    /\ UNCHANGED <<images, faults, selectedImage, selectedIsListed, isTagModalVisible,
                   selectedTags, tagGroups, store>>
    /\ UNCHANGED homeVars
    /\ UNCHANGED exportVars

\* the name is typed and the add-tag button pressed; the button is disabled
\* while no group is chosen, and the clock is read for the group that matches
AddTag(name) ==
    /\ isTagModalVisible
    /\ trim(name) # ""
    /\ selectedGroupId # NoGroup
    /\ Len(pending) < MaxPending
    /\ IF \E g \in 1..Len(tagGroups) : tagGroups[g].id = selectedGroupId
       THEN \E t \in Later :
               /\ now' = t
               /\ pending' = Append(pending,
                      saveTagGroups(withTag(tagGroups, selectedGroupId, name, t)))
       ELSE /\ now' = now
            /\ pending' = Append(pending, saveTagGroups(tagGroups))
    /\ selectedGroupId' = NoGroup
    /\ UNCHANGED <<images, faults, selectedImage, selectedIsListed, isTagModalVisible,
                   selectedTags, tagGroups, store, searchText, shots, reported>>
    /\ UNCHANGED exportVars

\* one tagged image, on a device that has the album
ManageInit ==
    /\ Init
    /\ images = MkImages(<< <<tagMom>> >>)
    /\ album.exists

\* the handlers that edit the catalog, on a store that answers late and may
\* fail; of the tags, the first of a group is the one deleted
ManageNext ==
    \/ \E i \in 1..Len(images) : OpenTagModal(i)
    \/ \E g \in 1..Len(tagGroups) : SelectGroup(g)
    \/ \E name \in NameTexts : AddGroup(name)
    \/ \E name \in NameTexts : AddTag(name)
    \/ \E g \in 1..Len(tagGroups) : DeleteGroup(g)
    \/ \E g \in 1..Len(tagGroups) : DeleteTag(g, 1)
    \/ \E res \in {"ok", "fail"} : StorageSettles(res)

ManageSpec == ManageInit /\ [][ManageNext]_vars

----------------------------------------------------------------------------
(* The image collection: HomeScreen's mount, takePhoto, deleteImage and     *)
(* clearAllImages (src/app/index.tsx:32-94, 254-293)                        *)

\* a collection one short of the limit and one at the limit, no image tagged
CappedInputs == { [i \in 1..n |-> <<>>] : n \in (MAX_IMAGES - 1)..MAX_IMAGES }

\* the second image carries a tag, the first none
PairInputs == { << <<>>, <<tagMom>> >> }

\* the instants at which a camera session can return a photo: taking one
\* takes longer than a tick of the clock
PhotoTimes == { t \in 0..MaxPhotoClock : t > now }

\* the limit tested with > in place of >=
atLimitOff(imgs) == Len(imgs) > MAX_IMAGES

\* images.length >= MAX_IMAGES
atLimit(imgs) == Len(imgs) >= MAX_IMAGES

\* the first image dropped, whatever its id
withoutFirst(imgs, imageId) == Tail(imgs)

\* images.filter(img => img.id !== imageId)
withoutImage(imgs, imageId) == SelectSeq(imgs, LAMBDA img : img.id # imageId)

\* the camera button: at the limit the press is answered by a toast; below it
\* the camera opens and the session keeps the collection the press saw
TakePhoto ==
    /\ ~atLimit(images)
    /\ Len(shots) < MaxShots
    /\ shots' = Append(shots, images)
    /\ UNCHANGED <<images, now, faults, selectedGroupId, searchText, reported>>
    /\ UNCHANGED editorVars
    /\ UNCHANGED exportVars

\* the k-th open camera session returns, canceled or with a photo at uri
CameraSettles(k, canceled) ==
    /\ k \in 1..Len(shots)
    /\ shots' = [i \in 1..(Len(shots) - 1) |-> IF i < k THEN shots[i] ELSE shots[i + 1]]
    /\ IF canceled
       THEN UNCHANGED <<images, now, pending, selectedIsListed>>
       ELSE /\ Len(pending) < MaxWrites
            /\ \E t \in PhotoTimes :
                LET newImage == ImageItem(ToString(t), "photo" \o ToString(t), <<>>)
                    updated == Append(shots[k], newImage)
                IN  /\ now' = t
                    /\ images' = updated
                    /\ pending' = Append(pending,
                           Call("takePhoto", "setItem", "images", JSONstringify(updated)))
                    /\ selectedIsListed' =
                           (selectedIsListed /\ \E i \in 1..Len(updated) :
                                                   updated[i] = selectedImage)
    /\ UNCHANGED <<faults, selectedImage, isTagModalVisible, selectedTags, tagGroups,
                   store, selectedGroupId, searchText, reported>>
    /\ UNCHANGED exportVars

\* deleteImage of the i-th image, the alert confirmed
DeleteImage(i) ==
    /\ i \in 1..Len(images)
    /\ Len(pending) < MaxWrites
    /\ LET updated == withoutImage(images, images[i].id)
       IN  /\ images' = updated
           /\ pending' = Append(pending,
                  Call("deleteImage", "setItem", "images", JSONstringify(updated)))
           /\ selectedIsListed' = (selectedIsListed /\ selectedImage.id # images[i].id)
    /\ UNCHANGED <<now, faults, selectedImage, isTagModalVisible, selectedTags,
                   tagGroups, store>>
    /\ UNCHANGED homeVars
    /\ UNCHANGED exportVars

\* clearAllImages on a list that is not empty, the alert confirmed
ClearAllImages ==
    /\ images # <<>>
    /\ Len(pending) < MaxWrites
    /\ images' = <<>>
    /\ pending' = Append(pending,
           Call("clearAllImages", "setItem", "images", JSONstringify(<<>>)))
    /\ selectedIsListed' = FALSE
    /\ UNCHANGED <<now, faults, selectedImage, isTagModalVisible, selectedTags,
                   tagGroups, store>>
    /\ UNCHANGED homeVars
    /\ UNCHANGED exportVars

\* HomeScreen just mounted: the list is empty and loadImages awaits the store
CollectionInit ==
    /\ images = <<>>
    /\ ex = [e \in Inv |-> IdleExport]
    /\ tempFiles = {}
    /\ library = {}
    /\ album = [exists |-> TRUE, assets |-> {}]
    /\ now = 0
    /\ faults = 0
    /\ calls = <<>>
    /\ selectedImage = NoImage
    /\ selectedIsListed = FALSE
    /\ isTagModalVisible = FALSE
    /\ selectedTags = <<>>
    /\ tagGroups = StoredCatalog
    /\ \E s \in PairInputs \cup CappedInputs :
           store = [images |-> JSONstringify(MkImages(s)),
                    tagGroups |-> JSONstringify(StoredCatalog)]
    /\ pending = <<Call("loadImages", "getItem", "images", JSONstringify(<<>>))>>
    /\ selectedGroupId = NoGroup
    /\ searchText = ""
    /\ shots = <<>>
    /\ reported = {}

\* the store holds the two images
PairInit == CollectionInit /\ JSONparse(store.images) \in { MkImages(s) : s \in PairInputs }

\* the store holds a collection at the limit or one short of it
CappedInit == CollectionInit /\ JSONparse(store.images) \in { MkImages(s) : s \in CappedInputs }

\* no camera session is open: the camera covers the screen while one is
CameraShut == shots = <<>>

\* the home screen is in front: neither the camera nor the editor covers it
AtHome == CameraShut /\ ~isTagModalVisible

\* the handlers that change the image collection, with the camera and the
\* store answering late
CollectionNext ==
    \/ AtHome /\ TakePhoto
    \/ \E k \in 1..Len(shots) : \E canceled \in BOOLEAN : CameraSettles(k, canceled)
    \/ \E i \in 1..Len(images) : AtHome /\ DeleteImage(i)
    \/ AtHome /\ ClearAllImages
    \/ \E res \in {"ok", "fail"} : StorageSettles(res)

CollectionSpec == PairInit /\ [][CollectionNext]_vars

\* the tags of the listed images edited and saved, images deleted in between,
\* on a store that answers late
RetagNext ==
    \/ \E i \in 1..Len(images) : AtHome /\ OpenTagModal(i)
    \/ \E g \in 1..Len(tagGroups) : \E k \in 1..Len(tagGroups[g].tags) : ToggleTag(g, k)
    \/ HandleSave
    \/ \E i \in 1..Len(images) : AtHome /\ DeleteImage(i)
    \/ StorageSettles("ok")

RetagSpec == PairInit /\ [][RetagNext]_vars

\* the collection around its limit: a second press on the camera button can
\* precede the camera's opening, an image is deleted only from a full list,
\* and the list is not cleared
CappedNext ==
    \/ TakePhoto
    \/ \E k \in 1..Len(shots) : \E canceled \in BOOLEAN : CameraSettles(k, canceled)
    \/ CameraShut /\ atLimit(images) /\ DeleteImage(Len(images))
    \/ \E res \in {"ok", "fail"} : StorageSettles(res)

CappedSpec == CappedInit /\ [][CappedNext]_vars

\* the two images listed and stored
RaceInit ==
    /\ Init
    /\ images \in { MkImages(s) : s \in PairInputs }

\* no image has been added to or taken from the list since the mount
Untouched == Len(images) = 2 /\ images[2].id = "img2"

\* an export running while one photo is taken, the first image deleted and
\* the tags of the last image saved
RaceNext ==
    \/ Export("e1")
    \/ AtHome /\ Untouched /\ TakePhoto
    \/ \E k \in 1..Len(shots) : \E canceled \in BOOLEAN : CameraSettles(k, canceled)
    \/ AtHome /\ images # <<>> /\ OpenTagModal(Len(images))
    \/ selectedTags = selectedImage.tags /\ ToggleTag(1, 1)
    \/ HandleSave
    \/ AtHome /\ Untouched /\ DeleteImage(1)
    \/ StorageSettles("ok")

RaceSpec == RaceInit /\ [][RaceNext]_vars

----------------------------------------------------------------------------
(* The search box of the editor: getFilteredGroups                          *)
(* (src/unnamed/part_000:157-167, 189-193)                                  *)

\* the texts typed into the search box
SearchTexts == {"", "  ", "MO", "d", "mo ", "x"}

\* String.prototype.toLowerCase on the names and texts in use
toLowerCase(str) ==
    CASE str = "Family" -> "family"
      [] str = "Sender" -> "sender"
      [] str = "Mom" -> "mom"
      [] str = "Dad" -> "dad"
      [] str = "Pets" -> "pets"
      [] str = "MO" -> "mo"
      [] OTHER -> str

\* the characters of the lower-case strings in use
Chars(str) ==
    CASE str = "" -> <<>>
      [] str = "  " -> <<" ", " ">>
      [] str = "mo" -> <<"m", "o">>
      [] str = "mo " -> <<"m", "o", " ">>
      [] str = "d" -> <<"d">>
      [] str = "x" -> <<"x">>
      [] str = "mom" -> <<"m", "o", "m">>
      [] str = "dad" -> <<"d", "a", "d">>
      [] str = "pets" -> <<"p", "e", "t", "s">>
      [] str = "family" -> <<"f", "a", "m", "i", "l", "y">>
      [] str = "sender" -> <<"s", "e", "n", "d", "e", "r">>
      [] OTHER -> <<str>>

\* String.prototype.includes: the text occurs at some offset
includes(str, text) ==
    LET h == Chars(str)
        n == Chars(text)
    IN  \E k \in 0..(Len(h) - Len(n)) : SubSeq(h, k + 1, k + Len(n)) = n

\* the name compared as typed, upper case against lower case
matchesExactCase(tag, text) == includes(toLowerCase(tag.name), text)

\* tag.name.toLowerCase().includes(searchText.toLowerCase())
matches(tag, text) == includes(toLowerCase(tag.name), toLowerCase(text))

\* the groups are restricted and none is dropped
getFilteredGroupsKeepEmpty(groups, text) ==
    IF trim(text) = "" THEN groups
    ELSE [i \in 1..Len(groups) |->
             [groups[i] EXCEPT !.tags = SelectSeq(@, LAMBDA tag : matches(tag, text))]]

getFilteredGroups(groups, text) ==
    IF trim(text) = "" THEN groups
    ELSE SelectSeq(
             [i \in 1..Len(groups) |->
                 [groups[i] EXCEPT !.tags = SelectSeq(@, LAMBDA tag : matches(tag, text))]],
             LAMBDA group : Len(group.tags) > 0)

\* the text is typed into the search box
SetSearchText(text) ==
    /\ isTagModalVisible
    /\ searchText' = text
    /\ UNCHANGED <<images, now, faults, selectedGroupId, shots, reported>>
    /\ UNCHANGED editorVars
    /\ UNCHANGED exportVars

\* the catalog searched while tags are added to it and deleted from it
SearchNext ==
    \/ \E i \in 1..Len(images) : Settled /\ OpenTagModal(i)
    \/ \E text \in SearchTexts : SetSearchText(text)
    \/ \E g \in 1..Len(tagGroups) : Settled /\ SelectGroup(g)
    \/ \E name \in NameTexts : Settled /\ AddTag(name)
    \/ \E g \in 1..Len(tagGroups) : \E k \in 1..Len(tagGroups[g].tags) :
           Settled /\ DeleteTag(g, k)
    \/ StorageSettles("ok")

SearchSpec == EditorInit /\ [][SearchNext]_vars

\* one tagged image listed and stored
TwinInit ==
    /\ Init
    /\ images = MkImages(<< <<tagMom>> >>)

\* the export button pressed again while an export is running: the second
\* invocation runs while the first awaits createAssetAsync in its loop, and
\* after the first has ended
TwinNext ==
    \/ Export("e1")
    \/ ex["e1"].pc \in {"create", "done"} /\ Export("e2")

TwinSpec == TwinInit /\ [][TwinNext]_vars

----------------------------------------------------------------------------
(* Tag selection: the time tag *)

MaxToggles == 3     \* longest run of toggleTag calls on one tag

\* the positions of the time tags of a tag list
TimeTags(tags) == { i \in 1..Len(tags) : tags[i].isTimeTag }

NonTimeTags(tags) == SelectSeq(tags, LAMBDA x : ~x.isTimeTag)

TagIds(tags) == { tags[i].id : i \in 1..Len(tags) }

BlankTexts == {"", "  "}

\* C12: whatever toggleTag, addTimeTag, removeTimeTag, clearAllTags,
\* deleteTag, deleteGroup and commit calls were made on images that started
\* without tags, the selection being edited and the tags of every image hold
\* at most one time tag.
C12_AtMostOneTimeTag ==
    /\ Cardinality(TimeTags(selectedTags)) <= 1
    /\ \A i \in 1..Len(images) : Cardinality(TimeTags(images[i].tags)) <= 1

\* a time tag was committed, a group deleted, and the selection now holds
\* another time tag next to a catalog tag
C12_Witness ==
    /\ \E i \in 1..Len(images) : \E k \in TimeTags(images[i].tags) :
           \E j \in TimeTags(selectedTags) :
               selectedTags[j].name # images[i].tags[k].name
    /\ Len(tagGroups) < Len(StoredCatalog)
    /\ NonTimeTags(selectedTags) # <<>>

\* C13: a call of addTimeTag with a non-blank text leaves exactly one time
\* tag in the selection, named by the text of that call; a call with an
\* empty or white-space text leaves the selection as it was.
C13_AddTimeTagSetsTheTimeTag ==
    [][ \A text \in TimeTexts :
            AddTimeTag(text) =>
                IF text \in BlankTexts
                THEN selectedTags' = selectedTags
                ELSE /\ Cardinality(TimeTags(selectedTags')) = 1
                     /\ \A i \in TimeTags(selectedTags') : selectedTags'[i].name = text
      ]_vars

\* the selection holds the time tag of a later call than the one committed
C13_Witness ==
    /\ \E i \in TimeTags(selectedTags) : selectedTags[i].name = "2023"
    /\ \E i \in 1..Len(images) : \E k \in TimeTags(images[i].tags) :
           images[i].tags[k].name = "Xmas "

\* C14: addTimeTag with a non-blank text puts the new time tag where the old
\* one was, or at the end when there was none; the other tags keep their
\* values and positions and the length grows by 0 or by 1.
C14_AddTimeTagFrame ==
    [][ \A text \in TimeTexts \ BlankTexts :
            AddTimeTag(text) =>
                IF TimeTags(selectedTags) # {}
                THEN /\ Len(selectedTags') = Len(selectedTags)
                     /\ \A i \in 1..Len(selectedTags) :
                            IF i \in TimeTags(selectedTags)
                            THEN selectedTags'[i].isTimeTag /\ selectedTags'[i].name = text
                            ELSE selectedTags'[i] = selectedTags[i]
                ELSE /\ Len(selectedTags') = Len(selectedTags) + 1
                     /\ SubSeq(selectedTags', 1, Len(selectedTags)) = selectedTags
                     /\ selectedTags'[Len(selectedTags')].isTimeTag
                     /\ selectedTags'[Len(selectedTags')].name = text
      ]_vars

\* a time tag made at the last instant of the clock stands between two
\* catalog tags
C14_Witness ==
    /\ Len(selectedTags) = 3
    /\ TimeTags(selectedTags) = {2}
    /\ selectedTags[2].id = "time-" \o ToString(MaxClock)
    /\ now = MaxClock

----------------------------------------------------------------------------
(* Tag selection: toggling and commit *)

\* n calls of toggleTag for one tag, each on the selection the last one left
RECURSIVE toggleTimes(_, _, _, _)
toggleTimes(tags, groupId, tag, n) ==
    IF n = 0 THEN tags
    ELSE toggleTimes(toggleTag(tags, groupId, tag), groupId, tag, n - 1)

Odd(n) == n % 2 = 1

\* C15: from every selection, n toggleTag calls for a tag leave it selected
\* iff it was selected before and n is even, or was not and n is odd; no
\* other tag id enters or leaves the selection.
C15_ToggleParity ==
    \A g \in 1..Len(StoredCatalog) : \A k \in 1..Len(StoredCatalog[g].tags) :
        \A n \in 0..MaxToggles :
            LET tag == StoredCatalog[g].tags[k]
                after == toggleTimes(selectedTags, StoredCatalog[g].id, tag, n)
            IN  /\ (tag.id \in TagIds(after)) = ((tag.id \in TagIds(selectedTags)) # Odd(n))
                /\ TagIds(after) \ {tag.id} = TagIds(selectedTags) \ {tag.id}

\* a selection made by toggling against the order of the catalog, around a
\* time tag
C15_Witness ==
    /\ Len(selectedTags) = 3
    /\ selectedTags[1].id = "t3"
    /\ selectedTags[2].isTimeTag
    /\ selectedTags[3].id = "t1"

Count(tags, x) == Cardinality({ i \in 1..Len(tags) : tags[i] = x })

IsPermutation(a, b) ==
    /\ Len(a) = Len(b)
    /\ \A i \in 1..Len(a) : Count(a, a[i]) = Count(b, a[i])

\* C16: what handleSave hands to updateImageTags, and so what the image gets,
\* is a permutation of the selection with the time tag, if there is one, in
\* front and the other tags in non-decreasing order of their names.
C16_CommitIsSorted ==
    [][ HandleSave =>
            \A i \in 1..Len(images) :
                images[i].id = selectedImage.id =>
                    LET out == images'[i].tags
                    IN  /\ IsPermutation(out, selectedTags)
                        /\ TimeTags(out) \subseteq {1}
                        /\ \A k \in 1..(Len(out) - 1) :
                               ~out[k].isTimeTag =>
                                   CollationKey(out[k].name) <= CollationKey(out[k + 1].name)
      ]_vars

\* an image got the time tag whose name sorts last in front of three catalog
\* tags, two of them of one name
C16_Witness ==
    \E i \in 1..Len(images) :
        /\ Len(images[i].tags) = 4
        /\ images[i].tags[1].isTimeTag
        /\ images[i].tags[1].name = "Xmas "
        /\ images[i].tags[2].name = "Dad"
        /\ images[i].tags[3].id = "t3"
        /\ images[i].tags[4].id = "t1"

----------------------------------------------------------------------------
(* Tag selection: opening the editor, group ids *)

\* C17: whenever the tag editor is opened for an image, the selection is
\* that image's saved tags, whatever happened before, an editing session on
\* the same image closed without commit included.
C17_OpenShowsSavedTags ==
    [][ \A i \in 1..Len(images) :
            OpenTagModal(i) => selectedTags' = images[i].tags
      ]_vars

\* the group of the stored catalog that holds the tag
HomeGroup(tagId) ==
    CHOOSE g \in 1..Len(StoredCatalog) :
        \E k \in 1..Len(StoredCatalog[g].tags) : StoredCatalog[g].tags[k].id = tagId

GroupIdsRight(tags) ==
    \A i \in 1..Len(tags) :
        ~tags[i].isTimeTag =>
            /\ tags[i].groupId # NoGroup
            /\ tags[i].groupId = StoredCatalog[HomeGroup(tags[i].id)].id

\* C18: every tag that is not a time tag, in the selection and in the tags of
\* every image, carries the id of the group under which toggleTag selected
\* it: none is without a group id or has the id of another group.
C18_GroupIdStamped ==
    /\ [](GroupIdsRight(selectedTags)
          /\ \A i \in 1..Len(images) : GroupIdsRight(images[i].tags))
    /\ [][ \A g \in 1..Len(tagGroups) : \A k \in 1..Len(tagGroups[g].tags) :
               ToggleTag(g, k) /\ Len(selectedTags') > Len(selectedTags) =>
                   /\ selectedTags'[Len(selectedTags')].id = tagGroups[g].tags[k].id
                   /\ selectedTags'[Len(selectedTags')].groupId = tagGroups[g].id
         ]_vars

\* an image got the two tags named Mom, one of each group
C18_Witness ==
    \E i \in 1..Len(images) :
        \E j, k \in 1..Len(images[i].tags) :
            /\ images[i].tags[j].id = "t1" /\ images[i].tags[j].groupId = "g1"
            /\ images[i].tags[k].id = "t3" /\ images[i].tags[k].groupId = "g2"

----------------------------------------------------------------------------
(* Catalog handlers of the tag editor *)

GroupIds(groups) == { groups[i].id : i \in 1..Len(groups) }

\* C19 as stated: after a confirmed deleteTag(g1, t1) with t1 selected, the
\* selection holds no tag whose groupId is g1.
C19_DeleteTagDropsGroup ==
    [][ \A g \in 1..Len(tagGroups) : \A k \in 1..Len(tagGroups[g].tags) :
            DeleteTag(g, k) /\ tagGroups[g].tags[k].id \in TagIds(selectedTags) =>
                \A i \in 1..Len(selectedTags') : selectedTags'[i].groupId # tagGroups[g].id
      ]_vars

\* C19, amended: after a confirmed deleteTag(g1, t1) with t1 selected, the
\* selection holds no tag whose id is t1, and every other selected tag, the
\* other tags of g1 included, is kept in its place in the order.
C19_DeleteTagDropsTag ==
    [][ \A g \in 1..Len(tagGroups) : \A k \in 1..Len(tagGroups[g].tags) :
            DeleteTag(g, k) /\ tagGroups[g].tags[k].id \in TagIds(selectedTags) =>
                /\ tagGroups[g].tags[k].id \notin TagIds(selectedTags')
                /\ selectedTags' =
                       SelectSeq(selectedTags, LAMBDA x : x.id # tagGroups[g].tags[k].id)
      ]_vars

\* the write of a catalog without t1 is in flight, t1 is not selected and
\* t2, of the same group, is
C19_Witness ==
    /\ pending # <<>>
    /\ pending[Len(pending)].op = "setItem"
    /\ pending[Len(pending)].key = "tagGroups"
    /\ \E g \in 1..Len(JSONparse(pending[Len(pending)].doc)) :
           /\ JSONparse(pending[Len(pending)].doc)[g].id = "g1"
           /\ TagIds(JSONparse(pending[Len(pending)].doc)[g].tags) = {"t2"}
    /\ "t1" \notin TagIds(selectedTags)
    /\ \E i \in 1..Len(selectedTags) :
           selectedTags[i].id = "t2" /\ selectedTags[i].groupId = "g1"

\* C20: after a confirmed deleteGroup(g) the selection has lost the tags of
\* group g and kept the others in their order, and once the write of the
\* handler has settled, whatever its outcome, the catalog in memory holds no
\* group with id g.
C20_DeleteGroupCascades ==
    [][ /\ \A g \in 1..Len(tagGroups) :
               DeleteGroup(g) =>
                   selectedTags' =
                       SelectSeq(selectedTags, LAMBDA x : x.groupId # tagGroups[g].id)
        /\ \A res \in {"ok", "fail"} :
               (/\ StorageSettles(res)
                /\ Head(pending).op = "setItem"
                /\ Head(pending).key = "tagGroups") =>
                   \A id \in GroupIds(tagGroups) \ GroupIds(JSONparse(Head(pending).doc)) :
                       id \notin GroupIds(tagGroups')
      ]_vars

----------------------------------------------------------------------------
(* Tag catalog: adding, failing writes and the frame of the handlers *)

\* the number of tags of a catalog
RECURSIVE TagCount(_)
TagCount(groups) ==
    IF groups = <<>> THEN 0 ELSE Len(Head(groups).tags) + TagCount(Tail(groups))

\* the call issued last
LastCall == pending[Len(pending)]

\* C21: no step of addGroup, addTag, deleteGroup or deleteTag, and no
\* completion of the write one of them issued, changes the image collection:
\* the images in memory and the stored "images" document are after the step
\* what they were before it.
C21_CatalogLeavesImages ==
    [][images' = images /\ store'.images = store.images]_vars

\* a catalog mutation has been written and the tagged image is still listed
C21_Witness ==
    /\ store.tagGroups # JSONstringify(StoredCatalog)
    /\ tagGroups = JSONparse(store.tagGroups)
    /\ images = MkImages(<< <<tagMom>> >>)
    /\ store.images = JSONstringify(images)

\* the catalog is groups with one tag of this name at the end of one group
OneTagAdded(groups, name, catalog) ==
    \E g \in 1..Len(groups) : \E t \in 0..MaxClock :
        catalog = [groups EXCEPT ![g].tags = Append(@, CatalogTag(ToString(t), name))]

\* C26: an addGroup with a non-blank name, no other catalog write in flight,
\* hands to the store the catalog with exactly one new empty group of that
\* name at its end, and an addTag with a non-blank name and a group chosen
\* the catalog with exactly one new tag of that name at the end of one group,
\* everything else as it was.
C26_AddAppendsOne ==
    [][\A name \in NameTexts :
          /\ AddGroup(name) =>
                \E t \in 0..MaxClock :
                    JSONparse(pending'[Len(pending')].doc) = withGroup(tagGroups, name, t)
          /\ AddTag(name) =>
                OneTagAdded(tagGroups, name, JSONparse(pending'[Len(pending')].doc))]_vars

\* the first call in flight is a write of the catalog
CatalogWriteInFlight ==
    /\ pending # <<>>
    /\ Head(pending).op = "setItem"
    /\ Head(pending).key = "tagGroups"

----------------------------------------------------------------------------
(* The image collection *)

\* the ids of a collection
Ids(imgs) == { imgs[i].id : i \in 1..Len(imgs) }

\* the image was taken by the camera after the mount
IsPhoto(img) == \E t \in 0..(MaxPhotoClock + 1) : img.id = ToString(t)

\* C22: the list in memory, the stored "images" document and every document
\* on its way to the store hold at most 80 images, whatever the order in
\* which camera sessions and store calls complete; and with 80 images or
\* more on the list a press on the camera button opens no camera session.
C22_AtMostMaxImages ==
    /\ Len(images) <= MAX_IMAGES
    /\ Len(JSONparse(store.images)) <= MAX_IMAGES
    /\ \A i \in 1..Len(pending) : Len(JSONparse(pending[i].doc)) <= MAX_IMAGES
    /\ \A k \in 1..Len(shots) : Len(shots[k]) < MAX_IMAGES
    /\ Len(images) >= MAX_IMAGES => ~ENABLED TakePhoto

\* a photo has filled the list and been stored while another camera session,
\* opened one short of the limit, is still open
C22_Witness ==
    /\ Len(images) = MAX_IMAGES
    /\ IsPhoto(images[MAX_IMAGES])
    /\ store.images = JSONstringify(images)
    /\ shots # <<>>

\* the ids updateImageTags can be called with: those on the list, the ""
\* passed while no image is selected, and one that is on no list
AskedIds == Ids(images) \cup {"", "img0"}

\* C23: updateImageTags(imageId, tags) yields a list of the same length whose
\* images have, position by position, the id and uri they had, the given tags
\* where the id is imageId and the tags they had elsewhere; with no image of
\* that id, the empty id included, the list it yields is the list it was
\* given.
C23_UpdateTagsFrame ==
    \A imageId \in AskedIds : \A tags \in TagLists :
        LET updated == updatedImages(imageId, tags)
        IN  /\ Len(updated) = Len(images)
            /\ \A i \in 1..Len(images) :
                  /\ updated[i].id = images[i].id
                  /\ updated[i].uri = images[i].uri
                  /\ updated[i].tags =
                         IF images[i].id = imageId THEN tags ELSE images[i].tags
            /\ imageId \notin Ids(images) => updated = images

\* the first of the two images has been given tags and saved, and the second
\* has the tag it had
C23_Witness ==
    /\ Len(images) = 2
    /\ images[1].tags # <<>>
    /\ images[2] = MkImages(<< <<>>, <<tagMom>> >>)[2]
    /\ store.images = JSONstringify(images)

\* C24: an image that is on the list before a step and not after it was
\* removed by that step's confirmed deleteImage of its id or by a confirmed
\* clearAllImages; no completion of a camera session, of the initial load or
\* of a write takes an image off the list.
C24_LeavesOnlyByDelete ==
    [][\A id \in Ids(images) \ Ids(images') :
          \/ ClearAllImages
          \/ \E i \in 1..Len(images) : images[i].id = id /\ DeleteImage(i)]_vars

\* the step completes a write without failure
WriteLands ==
    /\ pending # <<>>
    /\ Head(pending).op = "setItem"
    /\ StorageSettles("ok")

\* C25: with writes of one document in flight together, each write that
\* completes leaves under its key exactly the document it carried, whole, and
\* leaves the other key alone; a write that fails and every other step leave
\* the store as it was.  The stored document is thus always the document of
\* the write that completed last, never a merge of two.
C25_LastWriteWins ==
    [][IF WriteLands
       THEN /\ store'[Head(pending).key] = Head(pending).doc
            /\ \A key \in DOMAIN store \ {Head(pending).key} : store'[key] = store[key]
       ELSE store' = store]_vars

\* two writes of the image collection that carry different documents are in
\* flight together
C25_Witness ==
    /\ Len(pending) = 2
    /\ \A i \in 1..2 : pending[i].op = "setItem" /\ pending[i].key = "images"
    /\ pending[1].doc # pending[2].doc
    /\ store.images # pending[1].doc

\* the step is the failure of a write of the image collection
ImageWriteFails ==
    /\ pending # <<>>
    /\ Head(pending).op = "setItem"
    /\ Head(pending).key = "images"
    /\ StorageSettles("fail")

\* C29: every write of the image collection that fails is reported: either
\* the function that issued it shows an error notice, or the operation's
\* promise rejects to its caller.
C29_FailedWriteReported ==
    [][ImageWriteFails =>
          \/ Notices(Head(pending)) # {} /\ Notices(Head(pending)) \subseteq reported'
          \/ Rejects(Head(pending))]_vars

----------------------------------------------------------------------------
(* Export against the handlers of the image collection *)

\* the export is inside its batch loop
InBatch(x) == x.pc \in {"copy", "create", "delete", "attach"}

\* C28: the export works on the list it saw when it was invoked: the step
\* that starts it copies the list on screen, no later step changes that copy,
\* each batch is cut from the copy and the total reported is the copy's
\* length, whatever photos, deletes and tag saves land in between; and no
\* step of the export changes the list in memory or a stored document.
C28_ExportOnSnapshot ==
    [][/\ Export("e1") => images' = images /\ store' = store
       /\ StartExport("e1") => ex'["e1"].images = images
       /\ ex["e1"].pc # "idle" => ex'["e1"].images = ex["e1"].images
       /\ InBatch(ex'["e1"]) =>
             ex'["e1"].batchImages = BatchSlice(ex'["e1"].images, ex'["e1"].batchIndex)
       /\ ex'["e1"].toast = "success" =>
             ex'["e1"].totalCount = Len(ex'["e1"].images)]_vars

\* the export has ended with its success toast on the two images it saw,
\* while the list in memory has changed since
C28_Witness ==
    /\ ex["e1"].toast = "success"
    /\ ex["e1"].totalCount = 2
    /\ ex["e1"].exportedCount = 2
    /\ images # ex["e1"].images

----------------------------------------------------------------------------
(* The search box *)

\* the name holds the text, upper and lower case taken as one: the characters
\* of the text, in lower case, lie between a head and a tail of the name's
ContainsIgnoringCase(name, text) ==
    LET h == Chars(toLowerCase(name))
        n == Chars(toLowerCase(text))
    IN  \E a \in 0..Len(h) : \E b \in a..Len(h) :
            h = SubSeq(h, 1, a) \o n \o SubSeq(h, b + 1, Len(h))

\* the places in the catalog of the groups that have a tag holding the text
Hits(groups, text) ==
    { i \in 1..Len(groups) :
        \E k \in 1..Len(groups[i].tags) : ContainsIgnoringCase(groups[i].tags[k].name, text) }

\* the shown list is the groups at the places of Hits, in catalog order, each
\* with the tags that hold the text, in the order they had
IsProjection(shown, groups, text) ==
    /\ Len(shown) = Cardinality(Hits(groups, text))
    /\ \A j \in 1..Len(shown) :
          \E i \in Hits(groups, text) :
              /\ Cardinality({ h \in Hits(groups, text) : h < i }) = j - 1
              /\ shown[j].id = groups[i].id
              /\ shown[j].name = groups[i].name
              /\ shown[j].tags =
                     SelectSeq(groups[i].tags,
                               LAMBDA tag : ContainsIgnoringCase(tag.name, text))

\* what getFilteredGroups shows is the catalog under a blank text and the
\* projection of the catalog under any other
ShownIsProjection ==
    LET shown == getFilteredGroups(tagGroups, searchText)
    IN  IF searchText \in BlankTexts THEN shown = tagGroups
        ELSE IsProjection(shown, tagGroups, searchText)

TakenOut(imgs, i) ==
    [j \in 1..(Len(imgs) - 1) |-> IF j < i THEN imgs[j] ELSE imgs[j + 1]]

\* the step issues the write of the list the step leaves in memory
WritesList ==
    /\ Len(pending') = Len(pending) + 1
    /\ pending'[Len(pending')].op = "setItem"
    /\ pending'[Len(pending')].key = "images"
    /\ JSONparse(pending'[Len(pending')].doc) = images'

\* the step completes the write of a delete or of a clearAll, no other call
\* being in flight and the list in memory being the one the removal left
RemovalLands ==
    /\ WriteLands
    /\ Len(pending) = 1
    /\ Head(pending).by \in {"deleteImage", "clearAllImages"}
    /\ images = JSONparse(Head(pending).doc)

----------------------------------------------------------------------------
(* Export: the assets of one invocation *)

\* the paths under the names the naming function gave invocation e
NamedPaths(e) == { TempPath(ex[e].names[k]) : k \in 1..Len(ex[e].names) }

\* C32: the library holds at most one asset per invocation and image, and
\* every asset in it was created from a file staged under a name that
\* generateUniqueFileName produced in that invocation, whether the album
\* was there or was created on the way.
C32_OneNamedAssetPerImage ==
    /\ \A a \in library : \A b \in library :
          a.inv = b.inv /\ a.img = b.img => a = b
    /\ \A a \in library : a.path \in NamedPaths(a.inv)

\* the invocation is between the issue of a copy and the completion of the
\* delete of the copied file
Staging(x) ==
    x.pc \in {"initCopy", "initAsset", "initAlbum", "initDelete", "copy", "create", "delete"}

\* the temporary file the invocation is working on
StagingPath(x) ==
    IF x.pc \in {"initCopy", "initAsset", "initAlbum", "initDelete"} THEN AlbumInitPath
    ELSE TempPath(x.fileName)

\* the invocation awaits createAssetAsync on its temporary file
Creating(x) == x.pc \in {"initAsset", "create"}

\* C33: no two invocations are at one time staging under the same temporary
\* path, and while an invocation awaits the creation of an asset from its
\* temporary file that file exists, also when the second invocation starts
\* before the first has ended.
C33_StagingPathsApart ==
    /\ \A e \in Inv : \A f \in Inv \ {e} :
          Staging(ex[e]) /\ Staging(ex[f]) => StagingPath(ex[e]) # StagingPath(ex[f])
    /\ \A e \in Inv : Creating(ex[e]) => StagingPath(ex[e]) \in tempFiles

----------------------------------------------------------------------------
(* The image collection and its stored document *)

\* C34: whenever no store call is in flight, no camera session is open and
\* no call has failed, the list in memory is the stored "images" document,
\* however the initial load was interleaved with photos, deletes and
\* clearAll.
C34_MemoryIsStoredWhenIdle ==
    pending = <<>> /\ shots = <<>> /\ faults = 0 => JSONparse(store.images) = images

----------------------------------------------------------------------------
(* Tag selection: ids *)

\* the time tags of a selection, in their order
TimeTagsOf(tags) == SelectSeq(tags, LAMBDA x : x.isTimeTag)

\* no two places of the selection hold the same id
DistinctIds(tags) ==
    \A i \in 1..Len(tags) : \A j \in 1..Len(tags) : tags[i].id = tags[j].id => i = j

\* C35: after every step of toggleTag, addTimeTag, removeTimeTag,
\* clearAllTags, deleteTag, deleteGroup, of opening and of saving, no two
\* tags of selectedTags have the same id; and a toggleTag step on a catalog
\* tag leaves the time tags of the selection exactly as they were.
C35_DistinctIdsAndTimeTagKept ==
    [][/\ DistinctIds(selectedTags')
       /\ \A g \in 1..Len(tagGroups) : \A k \in 1..Len(tagGroups[g].tags) :
             ToggleTag(g, k) => TimeTagsOf(selectedTags') = TimeTagsOf(selectedTags)]_vars

\* a catalog tag has been toggled in after the time tag was set, and another
\* toggled in and out again
C35_Witness ==
    /\ Len(selectedTags) = 3
    /\ selectedTags[1].isTimeTag
    /\ selectedTags[2].id = "t3"
    /\ selectedTags[3].id = "t1"

====
